---- MODULE Spec2Model ----
(***************************************************************************)
(* logsynth: the parallel stream orchestrator (core/parallel.py) and the   *)
(* multi-template branch of the `run` command (cli.py) that calls it.      *)
(*                                                                         *)
(* One state machine: the main thread walks through `run` and              *)
(* run_parallel_streams statement by statement (pc, k), every StreamRunner *)
(* thread walks through its run loop one generate->write cycle at a time.  *)
(* core/rate_control.py and core/output.py are not part of the sources at  *)
(* hand: the run loops and the sink are modelled from their description.   *)
(***************************************************************************)
EXTENDS Integers, Sequences, FiniteSets, TLC

\* ---------------------------------------------------------------- bounds
MaxSources == 2       \* longest list of template sources
MaxCount == 4         \* largest --count / count argument
MaxCycles == 2        \* cycles one by-count run loop is followed for
MaxLines == 3         \* lines one generator is followed for
TicksPerSecond == 2   \* clock ticks in one second
MaxNow == 9           \* last clock tick a timed run loop is followed to
MaxWriters == 2       \* stream threads whose writes are followed
MaxWrites == 3        \* cycles each of them is followed for
MaxDurCycles == 1     \* cycles that fit into the longest duration

\* ------------------------------------------------------------- constants
None == "None"        \* Python's None, for strings and exceptions
AggregateError == "RuntimeError: Stream errors"
ConfigError == "ValueError: Either duration or count must be specified"
NoCount == -1         \* Python's None, for the count (an int otherwise)
DefaultCount == 1000  \* cli.py: count or (1000 if not duration else None)

SourceIds == {"nginx", "redis", "missing"}
Rates == {-1, 0, 6}
Durations == {None, "0s", "1s"}
Counts == {NoCount} \cup (0 .. MaxCount)
Bursts == {None, "100:5s"}

VARIABLES
    entry,      \* "cli": `logsynth run a b ...`; "api": run_parallel_streams called directly
    sources,    \* the template sources, in order
    rate,       \* the total rate
    duration,   \* the duration option / argument, None when absent
    count,      \* the count option / argument, NoCount when absent
    burst,      \* the --burst option (cli only)
    pc,         \* the main thread's position
    k,          \* the index of the for loop the main thread is in
    runners,    \* run_parallel_streams' list of StreamRunner objects
    outcome,    \* how run_parallel_streams ended: its return value or the exception
    sink,       \* the shared sink
    cli,        \* what `run` printed and how it ended
    gen,        \* the LogGenerators of one process and the random state they draw from
    loop,       \* one rate-controlled run loop and the clock it is paced by
    wr          \* the cycles of the stream threads and what the sink has received

vars == <<entry, sources, rate, duration, count, burst, pc, k, runners, outcome, sink, cli,
          gen, loop, wr>>
args == <<entry, sources, rate, duration, count, burst>>

\* ------------------------------------------------------ pure definitions

\* A burst test that never sees a burst spec.
BurstGivenNever(b) == FALSE

\* cli.py:146, 207: `if burst:`
BurstGiven(b) == b # None /\ b # ""

\* Python truthiness of `duration` (a str or None) and `count` (an int or None).
DurationGiven(d) == d # None /\ d # ""
CountGiven(c) == c # NoCount /\ c # 0

\* cli.py:155: count=count or (1000 if not duration else None)
CliCount(c, d) ==
    IF CountGiven(c) THEN c
    ELSE IF ~DurationGiven(d) THEN DefaultCount
    ELSE NoCount

\* The count argument run_parallel_streams receives.
PassedCount == IF entry = "cli" THEN CliCount(count, duration) ELSE count

\* create_generator: a source is a preset name or a path; one that is neither
\* raises FileNotFoundError.
Resolvable(s) == s # "missing"

\* generator.template.name of the template a source resolves to.
TemplateName(s) == s

\* parallel.py:120: rate / len(sources), a quotient kept as <<numerator, denominator>>.
PerStreamRate(r, n) == <<r, n>>

\* Mutant of PerStreamCount: the count rounded up, so that no line is dropped.
PerStreamCountCeil(c, n) == (c + n - 1) \div n

\* parallel.py:134: count // len(sources)
PerStreamCount(c, n) == c \div n

RatePositive(q) == q[1] * q[2] > 0

\* parse_duration: "30s" -> seconds.
Seconds(d) ==
    IF d = "1s" THEN 1
    ELSE IF d = "2s" THEN 2
    ELSE IF d = "4s" THEN 4
    ELSE IF d = "24h" THEN 86400
    ELSE 0

\* Mutant of StartMode: the two tests in the other order, count first.
StartModeCountFirst(d, c) ==
    IF CountGiven(c) THEN "count"
    ELSE IF DurationGiven(d) THEN "duration"
    ELSE "error"

\* parallel.py:130-138: which start_* the if / elif / else picks.
StartMode(d, c) ==
    IF DurationGiven(d) THEN "duration"
    ELSE IF CountGiven(c) THEN "count"
    ELSE "error"

\* A runner whose thread is started by its constructor.
NewRunnerStarted(s, q) ==
    [name |-> TemplateName(s), rate |-> q, emitted |-> 0, error |-> None,
     thread |-> "running", starts |-> 1, mode |-> None, target |-> 0, cycles |-> 0]

\* StreamRunner.__init__
NewRunner(s, q) ==
    [name |-> TemplateName(s), rate |-> q, emitted |-> 0, error |-> None,
     thread |-> "none", starts |-> 0, mode |-> None, target |-> 0, cycles |-> 0]

\* Mutant of StartRunner: the thread object's run() is called instead of start(),
\* so the run loop runs to its end inside the call and no thread ever runs.
StartRunnerSync(r, mode, target) ==
    [r EXCEPT !.thread = "finished", !.starts = @ + 1,
              !.mode = mode, !.target = target, !.emitted = target]

\* A start that creates and starts two threads for the runner.
StartRunnerTwice(r, mode, target) ==
    [r EXCEPT !.thread = "running", !.starts = @ + 2,
              !.mode = mode, !.target = target, !.cycles = 0]

\* StreamRunner.start_duration / start_count: a new thread, started.
StartRunner(r, mode, target) ==
    [r EXCEPT !.thread = "running", !.starts = @ + 1,
              !.mode = mode, !.target = target, !.cycles = 0]

\* Mutant of JoinReady: a join that does not wait (a join with a zero timeout).
JoinNoWait(r) == TRUE

\* StreamRunner.join with no timeout returns once the thread has terminated
\* (at once when no thread was ever started).
JoinReady(r) == r.thread # "running"

\* A thread that ends without assigning what its run loop returned.
RunCompletedDropsCount(r, n) == [r EXCEPT !.thread = "finished"]

\* _run_duration / _run_count, normal return: self.emitted = run_with_*(...)
RunCompleted(r, n) == [r EXCEPT !.emitted = n, !.thread = "finished"]

\* _run_duration / _run_count, except Exception as e: self._error = e.
\* The assignment to self.emitted is skipped by the exception.
RunFailed(r, e) == [r EXCEPT !.error = e, !.thread = "finished"]

\* Mutant of AfterFailure: a failing stream raises a stop flag that makes every
\* sibling still running leave its loop with the cycles it has done so far.
AfterFailureStopsSiblings(rs, i, e) ==
    [j \in DOMAIN rs |->
        IF j = i THEN RunFailed(rs[j], e)
        ELSE IF rs[j].thread = "running" THEN RunCompleted(rs[j], rs[j].cycles)
        ELSE rs[j]]

\* The runners after stream i's run loop raised e.
AfterFailure(rs, i, e) == [rs EXCEPT ![i] = RunFailed(rs[i], e)]

RECURSIVE ErrorsFirstOnly(_)
\* Mutant of Errors: the scan stops at the first failed runner.
ErrorsFirstOnly(rs) ==
    IF rs = <<>> THEN <<>>
    ELSE IF Head(rs).error # None THEN <<<<Head(rs).name, Head(rs).error>>>>
    ELSE ErrorsFirstOnly(Tail(rs))

RECURSIVE Errors(_)
\* parallel.py:145: [(r.name, r.error) for r in runners if r.error]
Errors(rs) ==
    IF rs = <<>> THEN <<>>
    ELSE LET rest == Errors(SubSeq(rs, 1, Len(rs) - 1))
             r == rs[Len(rs)]
         IN IF r.error # None THEN Append(rest, <<r.name, r.error>>) ELSE rest

\* A mapping in which the first runner of a name keeps the entry.
ResultMapFirstWins(rs) ==
    [n \in {rs[i].name : i \in DOMAIN rs} |->
        rs[CHOOSE i \in DOMAIN rs :
              /\ rs[i].name = n
              /\ \A j \in DOMAIN rs : rs[j].name = n => j >= i].emitted]

\* parallel.py:151: {runner.name: runner.emitted for runner in runners};
\* a later runner of the same name replaces the earlier entry.
ResultMap(rs) ==
    [n \in {rs[i].name : i \in DOMAIN rs} |->
        rs[CHOOSE i \in DOMAIN rs :
              /\ rs[i].name = n
              /\ \A j \in DOMAIN rs : rs[j].name = n => j <= i].emitted]

RECURSIVE SumValues(_)
\* sum(results.values())
SumValues(f) ==
    IF DOMAIN f = {} THEN 0
    ELSE LET n == CHOOSE x \in DOMAIN f : TRUE
         IN f[n] + SumValues([x \in DOMAIN f \ {n} |-> f[x]])

NoOutcome == [kind |-> "none", exc |-> None, errors |-> <<>>, value |-> <<>>]
Returned(v) == [kind |-> "returned", exc |-> None, errors |-> <<>>, value |-> v]
Raised(e, errs) == [kind |-> "raised", exc |-> e, errors |-> errs, value |-> <<>>]

\* Where the main thread goes when run_parallel_streams ends with o.
AfterCall(o) ==
    IF entry = "api" THEN "api_done"
    ELSE IF o.kind = "returned" THEN "cli_print"
    ELSE IF o.exc = "KeyboardInterrupt" THEN "cli_except"
    ELSE "cli_finally"

InCall == pc \in {"rps_entry", "rps_create", "rps_start", "rps_join", "rps_check"}

\* Mutant of SinkClose: a close that is skipped (the finally clause missing).
SinkCloseSkipped(s) == s

\* sink.close(), called by `run`.
SinkClose(s) == [s EXCEPT !.closes = @ + 1]

N == Len(sources)

\* No generator has been looked at; no run loop is being timed.
GenIdle == [seed |-> None, n |-> 0, created |-> 0, rng |-> <<None, 0>>, lines |-> <<>>]
LoopIdle == [phase |-> "idle"]
WrIdle == [n |-> 0, generated |-> <<>>, written |-> <<>>, pending |-> <<>>, log |-> <<>>]

Min(a, b) == IF a < b THEN a ELSE b

\* ------------------------------------------------------------------ Init

SourceLists == UNION {[1 .. n -> SourceIds] : n \in 0 .. MaxSources}

Init ==
    /\ entry \in {"cli", "api"}
    /\ sources \in SourceLists
    /\ rate \in Rates
    /\ duration \in Durations
    /\ count \in Counts
    /\ burst \in Bursts
    \* `run` takes the parallel branch for more than one source; a direct caller
    \* has no burst argument.
    /\ entry = "cli" => Len(sources) > 1
    /\ entry = "api" => burst = None
    /\ pc = IF entry = "cli" THEN "cli_begin" ELSE "rps_entry"
    /\ k = 1
    /\ runners = <<>>
    /\ outcome = NoOutcome
    /\ sink = [opened |-> entry = "api", closes |-> 0, lines |-> 0, lateWrites |-> 0]
    /\ cli = [printed |-> None, total |-> 0, exit |-> None]
    /\ gen = GenIdle
    /\ loop = LoopIdle
    /\ wr = WrIdle

\* ------------------------------------------------------- the main thread

\* cli.py:144: sink = create_sink(output)
CliCreateSink ==
    /\ pc = "cli_begin"
    /\ sink' = [sink EXCEPT !.opened = TRUE]
    /\ pc' = "cli_try"
    /\ UNCHANGED <<gen, loop, wr, args, k, runners, outcome, cli>>

\* cli.py:146-148: --burst with several templates: an error message and Exit(1).
CliBurstRejected ==
    /\ pc = "cli_try"
    /\ BurstGiven(burst)
    /\ cli' = [cli EXCEPT !.printed = "burst not supported", !.exit = "Exit(1)"]
    /\ pc' = "cli_finally"
    /\ UNCHANGED <<gen, loop, wr, args, k, runners, outcome, sink>>

\* cli.py:150-158: the call of run_parallel_streams.
CliCall ==
    /\ pc = "cli_try"
    /\ ~BurstGiven(burst)
    /\ pc' = "rps_entry"
    /\ UNCHANGED <<gen, loop, wr, args, k, runners, outcome, sink, cli>>

\* run_parallel_streams ends with o: the exception, if any, is what `run` would end with.
EndCall(o) ==
    /\ outcome' = o
    /\ pc' = AfterCall(o)
    /\ cli' = IF entry = "cli" /\ o.kind = "raised" /\ o.exc # "KeyboardInterrupt"
              THEN [cli EXCEPT !.exit = o.exc]
              ELSE cli

\* parallel.py:116-117
RpsNoSources ==
    /\ pc = "rps_entry"
    /\ sources = <<>>
    /\ EndCall(Raised("ValueError: No template sources provided", <<>>))
    /\ UNCHANGED <<gen, loop, wr, args, k, runners, sink>>

\* parallel.py:120-123
RpsEnter ==
    /\ pc = "rps_entry"
    /\ sources # <<>>
    /\ pc' = "rps_create"
    /\ k' = 1
    /\ runners' = <<>>
    /\ UNCHANGED <<gen, loop, wr, args, outcome, sink, cli>>

\* parallel.py:124-127, one iteration; create_generator raises for a bad source.
RpsCreate ==
    /\ pc = "rps_create"
    /\ k <= N
    /\ IF Resolvable(sources[k])
       THEN /\ runners' = Append(runners, NewRunner(sources[k], PerStreamRate(rate, N)))
            /\ k' = IF k = N THEN 1 ELSE k + 1
            /\ pc' = IF k = N THEN "rps_start" ELSE "rps_create"
            /\ UNCHANGED <<outcome, cli>>
       ELSE /\ EndCall(Raised("FileNotFoundError", <<>>))
            /\ UNCHANGED <<k, runners>>
    /\ UNCHANGED <<gen, loop, wr, args, sink>>

\* parallel.py:130-138, one iteration of the for loop of the branch taken,
\* or the else branch's raise.
RpsStart ==
    /\ pc = "rps_start"
    /\ LET mode == StartMode(duration, PassedCount)
           target == IF mode = "count" THEN PerStreamCount(PassedCount, N) ELSE Seconds(duration)
       IN IF mode = "error"
          THEN /\ EndCall(Raised(ConfigError, <<>>))
               /\ UNCHANGED <<k, runners>>
          ELSE /\ runners' = [runners EXCEPT ![k] = StartRunner(@, mode, target)]
               /\ k' = IF k = N THEN 1 ELSE k + 1
               /\ pc' = IF k = N THEN "rps_join" ELSE "rps_start"
               /\ UNCHANGED <<outcome, cli>>
    /\ UNCHANGED <<gen, loop, wr, args, sink>>

\* parallel.py:141-142, one iteration: runner.join() blocks until the thread is done.
RpsJoin ==
    /\ pc = "rps_join"
    /\ JoinReady(runners[k])
    /\ k' = IF k = N THEN 1 ELSE k + 1
    /\ pc' = IF k = N THEN "rps_check" ELSE "rps_join"
    /\ UNCHANGED <<gen, loop, wr, args, runners, outcome, sink, cli>>

\* parallel.py:145-151
RpsCheck ==
    /\ pc = "rps_check"
    /\ LET errors == Errors(runners)
       IN IF errors # <<>>
          THEN EndCall(Raised(AggregateError, errors))
          ELSE EndCall(Returned(ResultMap(runners)))
    /\ UNCHANGED <<gen, loop, wr, args, k, runners, sink>>

\* Ctrl-C while the main thread is inside run_parallel_streams: KeyboardInterrupt
\* is raised there (a blocking join is interruptible) and propagates to the caller.
Interrupt ==
    /\ InCall
    /\ EndCall(Raised("KeyboardInterrupt", <<>>))
    /\ UNCHANGED <<gen, loop, wr, args, k, runners, sink>>

\* cli.py:160-163, 166-167: the total and the per-name lines are printed, then
\* finally: sink.close(), and `run` returns.
CliPrint ==
    /\ pc = "cli_print"
    /\ cli' = [cli EXCEPT !.printed = "Emitted", !.total = SumValues(outcome.value),
                          !.exit = "ok"]
    /\ sink' = SinkClose(sink)
    /\ pc' = "cli_done"
    /\ UNCHANGED <<gen, loop, wr, args, k, runners, outcome>>

\* cli.py:164-167: except KeyboardInterrupt: "Interrupted" is printed, then
\* finally: sink.close(), and `run` returns.
CliInterrupted ==
    /\ pc = "cli_except"
    /\ cli' = [cli EXCEPT !.printed = "Interrupted", !.exit = "ok"]
    /\ sink' = SinkClose(sink)
    /\ pc' = "cli_done"
    /\ UNCHANGED <<gen, loop, wr, args, k, runners, outcome>>

\* cli.py:166-167: finally: sink.close() on the way out of an exception no
\* except clause handles (typer.Exit, ValueError, FileNotFoundError, RuntimeError);
\* `run` ends with that exception.
CliFinally ==
    /\ pc = "cli_finally"
    /\ sink' = SinkClose(sink)
    /\ pc' = "cli_done"
    /\ UNCHANGED <<gen, loop, wr, args, k, runners, outcome, cli>>

\* ---------------------------------------------------- the stream threads

Running(i) == i \in DOMAIN runners /\ runners[i].thread = "running"

\* run_with_count / run_with_duration: the loop goes on to another cycle.
LoopContinues(r) ==
    /\ RatePositive(r.rate)
    /\ IF r.mode = "count"
       THEN r.cycles < r.target /\ r.cycles < MaxCycles
       ELSE r.target > 0 /\ r.cycles < MaxDurCycles

\* run_with_count: all cycles done; run_with_duration: the duration has elapsed.
LoopEnds(r) ==
    /\ RatePositive(r.rate)
    /\ IF r.mode = "count" THEN r.cycles >= r.target ELSE TRUE

\* sink.write(line) reaches the sink.
SinkWrite(s) ==
    [s EXCEPT !.lines = @ + 1,
              !.lateWrites = IF s.closes > 0 THEN 1 ELSE @]

\* The run loop rejects a rate that is not positive before its first cycle.
RateRejected(i) ==
    /\ Running(i)
    /\ ~RatePositive(runners[i].rate)
    /\ runners' = AfterFailure(runners, i, "ValueError: rate must be positive")
    /\ UNCHANGED <<gen, loop, wr, args, pc, k, outcome, sink, cli>>

\* One cycle: line = generate(); write(line); the loop's counter goes up.
Cycle(i) ==
    /\ Running(i)
    /\ LoopContinues(runners[i])
    /\ runners' = [runners EXCEPT ![i].cycles = @ + 1]
    /\ sink' = SinkWrite(sink)
    /\ UNCHANGED <<gen, loop, wr, args, pc, k, outcome, cli>>

\* generate() raises: nothing is written.
GenerateFails(i) ==
    /\ Running(i)
    /\ LoopContinues(runners[i])
    /\ runners' = AfterFailure(runners, i, "GenerateError")
    /\ UNCHANGED <<gen, loop, wr, args, pc, k, outcome, sink, cli>>

\* write(line) raises: the line does not reach the sink.
WriteFails(i) ==
    /\ Running(i)
    /\ LoopContinues(runners[i])
    /\ runners' = AfterFailure(runners, i, "WriteError")
    /\ sink' = [sink EXCEPT !.lateWrites = IF sink.closes > 0 THEN 1 ELSE @]
    /\ UNCHANGED <<gen, loop, wr, args, pc, k, outcome, cli>>

\* The loop ends and returns its counter.
LoopExit(i) ==
    /\ Running(i)
    /\ LoopEnds(runners[i])
    /\ runners' = [runners EXCEPT ![i] = RunCompleted(@, @.cycles)]
    /\ UNCHANGED <<gen, loop, wr, args, pc, k, outcome, sink, cli>>

Stream(i) ==
    \/ RateRejected(i)
    \/ Cycle(i)
    \/ GenerateFails(i)
    \/ WriteFails(i)
    \/ LoopExit(i)

Next ==
    \/ CliCreateSink
    \/ CliBurstRejected
    \/ CliCall
    \/ RpsNoSources
    \/ RpsEnter
    \/ RpsCreate
    \/ RpsStart
    \/ RpsJoin
    \/ RpsCheck
    \/ Interrupt
    \/ CliPrint
    \/ CliInterrupted
    \/ CliFinally
    \/ \E i \in 1 .. MaxSources : Stream(i)

Spec == Init /\ [][Next]_vars

\* ---------------------------------------------------------------------------
\* The generators of one process (generator.py).  Every LogGenerator is built by
\* the main thread before a stream thread exists (parallel.py 123-127); each
\* stream thread then calls generate() on its own generator.  The seed is given
\* to `random.seed`, the random module of the process, never to a generator of
\* its own: `preview` saves and restores that module's state around generate().

Seeds == {None, "1", "2"}

\* Nothing of the orchestrator or of a timed run loop is looked at.
MainIdle ==
    /\ entry = "api" /\ sources = <<>> /\ rate = 6 /\ duration = None
    /\ count = NoCount /\ burst = None /\ pc = "idle" /\ k = 0
    /\ runners = <<>> /\ outcome = NoOutcome
    /\ sink = [opened |-> TRUE, closes |-> 0, lines |-> 0, lateWrites |-> 0]
    /\ cli = [printed |-> None, total |-> 0, exit |-> None]

main == <<args, pc, k, runners, outcome, sink, cli>>

\* random.seed(seed): the module's state restarts the sequence of that seed.
RandomSeed(s) == <<s, 0>>

\* One draw from the module's state: the value is the state's place in the
\* sequence of its seed, and the state moves on by one.
RandomValue(rng) == rng
RandomAdvance(rng) == <<rng[1], rng[2] + 1>>

GenInit ==
    /\ MainIdle
    /\ loop = LoopIdle
    /\ wr = WrIdle
    /\ \E s \in Seeds, n \in 1 .. MaxSources :
          gen = [seed |-> s, n |-> n, created |-> 0, rng |-> <<None, 0>>,
                 lines |-> [i \in 1 .. n |-> <<>>]]

\* LogGenerator.__init__ for the next source.
GenCreate ==
    /\ gen.created < gen.n
    /\ gen' = [gen EXCEPT !.created = @ + 1,
                          !.rng = IF gen.seed # None THEN RandomSeed(gen.seed) ELSE @]
    /\ UNCHANGED <<main, loop, wr>>

\* Stream i's thread calls generate() on its generator.
GenGenerate(i) ==
    /\ gen.created = gen.n
    /\ i \in 1 .. gen.n
    /\ Len(gen.lines[i]) < MaxLines
    /\ gen' = [gen EXCEPT !.lines[i] = Append(@, RandomValue(gen.rng)),
                          !.rng = RandomAdvance(@)]
    /\ UNCHANGED <<main, loop, wr>>

GenNext ==
    \/ GenCreate
    \/ \E i \in 1 .. MaxSources : GenGenerate(i)

GenSpec == GenInit /\ [][GenNext]_vars

\* ---------------------------------------------------------------------------
\* The single-template branch of `run` (cli.py 192-227) and the run loop it
\* enters, on a clock of TicksPerSecond ticks a second.  The sink is open and the
\* generator built; the loop runs on the main thread.

LoopRates == {-1, 0, 1, 3}
LoopDurations == {None, "0s", "2s", "4s"}
LoopCounts == {NoCount, 0, 3}
LoopBursts == {None, "3:1s,1:2s", "0:1s"}
DefaultDuration == "24h"
RateError == "ValueError: rate must be positive"
BurstError == "ValueError: invalid burst pattern"

Ticks(d) == Seconds(d) * TicksPerSecond

\* parse_burst_pattern: the segments (rate, span) of a burst string, in order.
ParseBurstPattern(b) ==
    IF b = "3:1s,1:2s"
    THEN <<[rate |-> 3, span |-> "1s"], [rate |-> 1, span |-> "2s"]>>
    ELSE IF b = "0:1s"
    THEN <<[rate |-> 0, span |-> "1s"]>>
    ELSE <<>>

\* A parse that lets any rate through.
SegmentsValidAnyRate(segs) == segs # <<>>

\* parse_burst_pattern: every pair has a positive rate, or the whole parse fails.
SegmentsValid(segs) == segs # <<>> /\ \A n \in DOMAIN segs : segs[n].rate > 0

RECURSIVE SumSpans(_)
\* The scheduled span of a burst schedule, in ticks.
SumSpans(segs) == IF segs = <<>> THEN 0 ELSE Ticks(Head(segs).span) + SumSpans(Tail(segs))

\* A choice of run loop without the test for --duration.
SingleModeBurstUnchecked(b, d, c) ==
    IF b # None THEN "burst"
    ELSE IF DurationGiven(d) THEN "duration"
    ELSE IF CountGiven(c) THEN "count"
    ELSE "default"

\* cli.py:207-220: which run loop `run` enters.
SingleMode(b, d, c) ==
    IF b # None
    THEN IF ~DurationGiven(d) THEN "exit" ELSE "burst"
    ELSE IF DurationGiven(d) THEN "duration"
    ELSE IF CountGiven(c) THEN "count"
    ELSE "default"

\* A deadline test that lets cycle i go one interval early.
DeadlineReachedEarly(t0, r, i, now) == (now - t0) * r >= (i - 1) * TicksPerSecond

\* now >= deadline_i, where deadline_i = t0 + i / r.
DeadlineReached(t0, r, i, now) == (now - t0) * r >= i * TicksPerSecond

\* A bound test that lets the cycle whose deadline is the bound itself through.
DeadlineBeforeOrAt(r, i, span) == i * TicksPerSecond <= r * span

\* deadline_i < t0 + span, for a span in ticks.
DeadlineBefore(r, i, span) == i * TicksPerSecond < r * span

\* A segment start taken from the start of the whole run.
SegmentStartIsRunStart(now, start) == start

\* The instant a burst segment's span is measured from: the instant it begins.
SegmentStart(now, start) == now

\* A segment end that does not look at the outer bound.
SegmentEndIgnoresOuter(now, span, outerEnd) == now + span

\* The instant a burst segment started at `now` ends: after its span, or at the
\* outer bound when that comes first.
SegmentEnd(now, span, outerEnd) == Min(now + span, outerEnd)

LoopInit ==
    /\ MainIdle
    /\ gen = GenIdle
    /\ wr = WrIdle
    /\ \E r \in LoopRates, d \in LoopDurations, c \in LoopCounts, b \in LoopBursts,
          t \in 0 .. 1 :
          loop = [phase |-> "cli", rate |-> r, duration |-> d, count |-> c, burst |-> b,
                  policy |-> None, now |-> t, start |-> t, t0 |-> t, end |-> 0,
                  pace |-> 0, i |-> 0, emitted |-> 0, segs |-> <<>>, outerEnd |-> 0,
                  topAt |-> t, startAt |-> t, late |-> FALSE,
                  counts |-> <<>>,
                  printed |-> None, total |-> NoCount, closes |-> 0, exc |-> None]

LoopMode == SingleMode(loop.burst, loop.duration, loop.count)

\* cli.py:208-211: --burst without --duration.
LoopBurstNoDuration ==
    /\ loop.phase = "cli"
    /\ LoopMode = "exit"
    /\ loop' = [loop EXCEPT !.phase = "finally", !.exc = "Exit(1)",
                            !.printed = "Error: --burst requires --duration"]
    /\ UNCHANGED <<main, gen, wr>>

\* cli.py:212-213: run_with_burst(segments, duration, ...) begins its first
\* segment; the rate option is not among its arguments.
LoopStartBurst ==
    /\ loop.phase = "cli"
    /\ LoopMode = "burst"
    /\ SegmentsValid(ParseBurstPattern(loop.burst))
    /\ LET segs == ParseBurstPattern(loop.burst)
           outerEnd == loop.now + Ticks(loop.duration)
       IN loop' = [loop EXCEPT !.phase = "top", !.policy = "burst", !.segs = segs,
                               !.outerEnd = outerEnd, !.pace = Head(segs).rate,
                               !.t0 = loop.now, !.i = 0,
                               !.end = SegmentEnd(loop.now, Ticks(Head(segs).span), outerEnd)]
    /\ UNCHANGED <<main, gen, wr>>

\* cli.py:212: parse_burst_pattern(burst) fails; nothing in `run` catches it.
LoopBurstRejected ==
    /\ loop.phase = "cli"
    /\ LoopMode = "burst"
    /\ ~SegmentsValid(ParseBurstPattern(loop.burst))
    /\ loop' = [loop EXCEPT !.phase = "finally", !.exc = BurstError]
    /\ UNCHANGED <<main, gen, wr>>

\* cli.py:214-215, 218-220: run_with_duration(actual_rate, duration or "24h", ...).
LoopStartDuration ==
    /\ loop.phase = "cli"
    /\ LoopMode \in {"duration", "default"}
    /\ loop.rate > 0
    /\ LET d == IF LoopMode = "default" THEN DefaultDuration ELSE loop.duration
       IN loop' = [loop EXCEPT !.phase = "top", !.policy = "duration", !.pace = loop.rate,
                               !.t0 = loop.now, !.i = 0, !.end = loop.now + Ticks(d)]
    /\ UNCHANGED <<main, gen, wr>>

\* cli.py:216-217: run_with_count(actual_rate, count, ...).
LoopStartCount ==
    /\ loop.phase = "cli"
    /\ LoopMode = "count"
    /\ loop.rate > 0
    /\ loop' = [loop EXCEPT !.phase = "top", !.policy = "count", !.pace = loop.rate,
                            !.t0 = loop.now, !.i = 0]
    /\ UNCHANGED <<main, gen, wr>>

\* run_with_count / run_with_duration: a rate that is not positive is a
\* configuration error, raised before any cycle.
LoopRateRejected ==
    /\ loop.phase = "cli"
    /\ LoopMode \in {"duration", "default", "count"}
    /\ loop.rate <= 0
    /\ loop' = [loop EXCEPT !.phase = "finally", !.exc = RateError]
    /\ UNCHANGED <<main, gen, wr>>

\* The loop has a further cycle to pace toward: by count, one of the count is
\* left; by duration, the next deadline lies before the end.
CycleFits ==
    IF loop.policy = "count" THEN loop.i < loop.count
    ELSE DeadlineBefore(loop.pace, loop.i, loop.end - loop.t0)

\* The loop condition fails: the count is done, or the end instant has come.
LoopOver ==
    IF loop.policy = "count" THEN loop.i >= loop.count
    ELSE loop.now >= loop.end

DeadlineNow == DeadlineReached(loop.t0, loop.pace, loop.i, loop.now)

\* What a sleeping loop waits for: the deadline of its next cycle, or the end of
\* a run in which no further cycle fits.
WakeReached == IF CycleFits THEN DeadlineNow ELSE loop.now >= loop.end

\* The deadline of the next cycle has passed: the cycle starts without a wait.
LoopStartCycle ==
    /\ loop.phase = "top"
    /\ ~LoopOver /\ CycleFits /\ DeadlineNow
    /\ loop' = [loop EXCEPT !.phase = "cycle", !.topAt = loop.now, !.startAt = loop.now]
    /\ UNCHANGED <<main, gen, wr>>

\* The deadline lies ahead: the loop blocks.
LoopSleep ==
    /\ loop.phase = "top"
    /\ ~LoopOver /\ ~(CycleFits /\ DeadlineNow)
    /\ loop' = [loop EXCEPT !.phase = "sleep", !.topAt = loop.now]
    /\ UNCHANGED <<main, gen, wr>>

\* A tick passes in the sleep; the sleep is late when it could have ended.
LoopSleepTick ==
    /\ loop.phase = "sleep"
    /\ loop.now < MaxNow
    /\ loop' = [loop EXCEPT !.now = @ + 1, !.late = @ \/ WakeReached]
    /\ UNCHANGED <<main, gen, wr>>

\* The sleep ends: into the cycle it waited for, or back to the loop condition.
LoopWake ==
    /\ loop.phase = "sleep"
    /\ WakeReached
    /\ loop' = IF CycleFits
               THEN [loop EXCEPT !.phase = "cycle", !.startAt = loop.now]
               ELSE [loop EXCEPT !.phase = "top"]
    /\ UNCHANGED <<main, gen, wr>>

\* A tick passes inside generate() or write().
LoopCycleTick ==
    /\ loop.phase = "cycle"
    /\ loop.now < MaxNow
    /\ loop' = [loop EXCEPT !.now = @ + 1, !.late = TRUE]
    /\ UNCHANGED <<main, gen, wr>>

\* write(generate()) has returned: one line emitted.
LoopCycleDone ==
    /\ loop.phase = "cycle"
    /\ loop' = [loop EXCEPT !.phase = "top", !.i = @ + 1, !.emitted = @ + 1]
    /\ UNCHANGED <<main, gen, wr>>

\* A burst segment has ended with the outer bound not reached and a segment left.
LoopNextSegment ==
    /\ loop.phase = "top"
    /\ LoopOver
    /\ loop.policy = "burst" /\ loop.now < loop.outerEnd /\ Len(loop.segs) > 1
    /\ LET rest == Tail(loop.segs)
           t0 == SegmentStart(loop.now, loop.start)
       IN loop' = [loop EXCEPT !.segs = rest, !.pace = Head(rest).rate,
                               !.t0 = t0, !.i = 0, !.counts = Append(@, loop.i),
                               !.end = SegmentEnd(t0, Ticks(Head(rest).span),
                                                  loop.outerEnd)]
    /\ UNCHANGED <<main, gen, wr>>

\* The run loop returns its emitted count.
LoopReturn ==
    /\ loop.phase = "top"
    /\ LoopOver
    /\ loop.policy = "burst" => (loop.now >= loop.outerEnd \/ Len(loop.segs) <= 1)
    /\ loop' = [loop EXCEPT !.phase = "done", !.counts = Append(@, loop.i),
                            !.segs = IF loop.policy = "burst" THEN Tail(@) ELSE @]
    /\ UNCHANGED <<main, gen, wr>>

\* Ctrl-C while the loop runs: KeyboardInterrupt is raised in the main thread.
LoopInterrupt ==
    /\ loop.phase \in {"top", "sleep", "cycle"}
    /\ loop' = [loop EXCEPT !.phase = "interrupted", !.exc = "KeyboardInterrupt"]
    /\ UNCHANGED <<main, gen, wr>>

\* cli.py:222, 225-226: "Emitted {emitted} log lines", then finally: sink.close().
LoopPrint ==
    /\ loop.phase = "done"
    /\ loop' = [loop EXCEPT !.phase = "exit", !.printed = "Emitted",
                            !.total = loop.emitted, !.closes = @ + 1]
    /\ UNCHANGED <<main, gen, wr>>

\* cli.py:223-226: except KeyboardInterrupt: "Interrupted", then sink.close().
LoopInterrupted ==
    /\ loop.phase = "interrupted"
    /\ loop' = [loop EXCEPT !.phase = "exit", !.printed = "Interrupted", !.closes = @ + 1]
    /\ UNCHANGED <<main, gen, wr>>

\* cli.py:225-226: finally: sink.close() on the way out of any other exception.
LoopFinally ==
    /\ loop.phase = "finally"
    /\ loop' = [loop EXCEPT !.phase = "exit", !.closes = @ + 1]
    /\ UNCHANGED <<main, gen, wr>>

LoopNext ==
    \/ LoopBurstNoDuration
    \/ LoopStartBurst
    \/ LoopBurstRejected
    \/ LoopStartDuration
    \/ LoopStartCount
    \/ LoopRateRejected
    \/ LoopStartCycle
    \/ LoopSleep
    \/ LoopSleepTick
    \/ LoopWake
    \/ LoopCycleTick
    \/ LoopCycleDone
    \/ LoopNextSegment
    \/ LoopReturn
    \/ LoopInterrupt
    \/ LoopPrint
    \/ LoopInterrupted
    \/ LoopFinally

LoopSpec == LoopInit /\ [][LoopNext]_vars

\* ---------------------------------------------------------------------------
\* The cycles of the stream threads against the shared sink.  Every thread runs
\* its run loop with its own generator's generate and the sink's write
\* (parallel.py 38-43, 50-55); a cycle is value = generate(); write(value).
\* Line <<i, j>> is the j-th line stream i generated.

\* A write that puts the line in front of what the sink has received.
SinkWriteLineFirst(log, line) == <<line>> \o log

\* Sink.write: the sink serialises concurrent calls; the line is added whole
\* behind what it has received.
SinkWriteLine(log, line) == Append(log, line)

WrInit ==
    /\ MainIdle
    /\ gen = GenIdle
    /\ loop = LoopIdle
    /\ \E n \in 1 .. MaxWriters :
          wr = [n |-> n, generated |-> [i \in 1 .. n |-> 0],
                written |-> [i \in 1 .. n |-> 0],
                pending |-> [i \in 1 .. n |-> <<>>], log |-> <<>>]

\* Stream i's loop calls generate(): the write of its last cycle has returned.
WrGenerate(i) ==
    /\ i \in 1 .. wr.n
    /\ wr.pending[i] = <<>>
    /\ wr.generated[i] < MaxWrites
    /\ wr' = [wr EXCEPT !.generated[i] = @ + 1,
                        !.pending[i] = <<i, wr.generated[i] + 1>>]
    /\ UNCHANGED <<main, gen, loop>>

\* Stream i's loop calls write(value) with the line it has just generated.
WrWrite(i) ==
    /\ i \in 1 .. wr.n
    /\ wr.pending[i] # <<>>
    /\ wr' = [wr EXCEPT !.log = SinkWriteLine(@, wr.pending[i]),
                        !.written[i] = @ + 1,
                        !.pending[i] = <<>>]
    /\ UNCHANGED <<main, gen, loop>>

WrNext ==
    \/ \E i \in 1 .. MaxWriters : WrGenerate(i)
    \/ \E i \in 1 .. MaxWriters : WrWrite(i)

WrSpec == WrInit /\ [][WrNext]_vars

\* ---------------------------------------------------------------------------

\* ------------------------------------------------------------ the claims

Started(r) == r.thread # "none"
Completed(r) == r.thread = "finished" /\ r.error = None
Failed(r) == r.thread = "finished" /\ r.error # None
FailedSet == {i \in DOMAIN runners : Failed(runners[i])}
AggregateRaised == outcome.kind = "raised" /\ outcome.exc = AggregateError

RECURSIVE SumEmitted(_)
SumEmitted(rs) == IF rs = <<>> THEN 0 ELSE Head(rs).emitted + SumEmitted(Tail(rs))

\* C1: run_parallel_streams returns its result, or raises its aggregate error,
\* only when no stream thread it started is still running.
C1_JoinAllBeforeResult ==
    (outcome.kind = "returned" \/ AggregateRaised)
        => /\ Len(runners) = N
           /\ \A i \in DOMAIN runners : Started(runners[i]) /\ runners[i].thread # "running"

C1_Witness ==
    /\ outcome.kind = "returned"
    /\ Len(runners) >= 2
    /\ \A i \in DOMAIN runners : runners[i].emitted > 0

\* C2: a step in which one stream records a failure changes no other runner, and
\* when the orchestrator reports after the join, every stream without an error of
\* its own has completed, in count mode with emitted equal to the per-stream count.
C2_IsolationStep ==
    /\ \A i \in DOMAIN runners :
          (runners[i].error = None /\ runners'[i].error # None)
              => \A j \in DOMAIN runners \ {i} : runners'[j] = runners[j]
    /\ (outcome'.kind = "returned" \/ (outcome'.kind = "raised" /\ outcome'.exc = AggregateError))
          => \A j \in DOMAIN runners' :
                runners'[j].error = None
                    => /\ runners'[j].thread = "finished"
                       /\ runners'[j].mode = "count"
                              => runners'[j].emitted = PassedCount \div N

\* C2: failure isolation: every step of the program is a C2_IsolationStep (one
\* stream's failure stops or changes no sibling, and every sibling without an
\* error of its own is found completed with its full per-stream count).
C2_FailureIsolation == [][C2_IsolationStep]_vars

C2_Witness ==
    /\ AggregateRaised
    /\ \E i, j \in DOMAIN runners :
          /\ runners[i].error = "GenerateError"
          /\ runners[i].cycles > 0
          /\ Completed(runners[j])
          /\ runners[j].mode = "count"
          /\ runners[j].emitted = 2

\* C3 (as claimed): a stream whose run loop failed after k successful cycles has
\* its error recorded and its emitted counter equal to k.
C3_PartialCountKept ==
    \A i \in DOMAIN runners :
        Failed(runners[i]) => runners[i].emitted = runners[i].cycles

\* C4: a result mapping is returned only when no stream failed; the aggregate
\* error is raised with all streams joined and lists, in runner order, exactly one
\* (name, error) entry per failed stream and none for a completed one.
C4_AggregateNamesFailed ==
    /\ outcome.kind = "returned" => FailedSet = {}
    /\ AggregateRaised =>
          /\ FailedSet # {}
          /\ \A i \in DOMAIN runners : runners[i].thread = "finished"
          /\ Len(outcome.errors) = Cardinality(FailedSet)
          /\ \A i \in FailedSet :
                outcome.errors[Cardinality({j \in FailedSet : j <= i})]
                    = <<runners[i].name, runners[i].error>>

C4_Witness ==
    /\ AggregateRaised
    /\ Cardinality(FailedSet) = 1
    /\ \E j \in DOMAIN runners : Completed(runners[j]) /\ runners[j].emitted > 0

\* C5 (as claimed): when the aggregate error is raised, the caller still holds
\* the emitted count of every stream of the run.
C5_CountsAvailableOnError ==
    AggregateRaised
        => \A i \in DOMAIN runners : runners[i].name \in DOMAIN outcome.value

\* C6: in count mode every stream is started with rate R/N and count floor(C/N),
\* and a run that returns has emitted N*floor(C/N) <= C lines in total.
C6_CountSplit ==
    LET C == PassedCount
        inCount == ~DurationGiven(duration) /\ CountGiven(C)
    IN inCount =>
        /\ \A i \in DOMAIN runners :
              /\ runners[i].rate[1] * N = rate * runners[i].rate[2]
              /\ Started(runners[i]) =>
                    /\ runners[i].mode = "count"
                    /\ runners[i].target * N <= C
                    /\ C < (runners[i].target + 1) * N
        /\ outcome.kind = "returned" =>
              /\ SumEmitted(runners) = N * (C \div N)
              /\ SumEmitted(runners) <= C
              /\ sink.lines = SumEmitted(runners)

C6_Witness ==
    /\ outcome.kind = "returned"
    /\ ~DurationGiven(duration)
    /\ N = 2
    /\ PassedCount = 3
    /\ SumEmitted(runners) = 2
    /\ sink.lines = 2

C8_BadRateBeforeThreads ==
    rate <= 0 => \A i \in DOMAIN runners : ~Started(runners[i])

\* C9 (as claimed): the sink is closed at most once, at the end of `run`, only
\* when no started stream is still running, and no stream writes to it afterwards.
C9_CloseAfterAllStreams ==
    /\ sink.closes <= 1
    /\ pc = "cli_done" => sink.closes = 1
    /\ sink.closes > 0 => \A i \in DOMAIN runners : runners[i].thread # "running"
    /\ sink.lateWrites = 0

\* C9 (amended): the sink is closed exactly once on every exit path of `run`, by
\* `run` itself and not before it ends; on every path but the user interrupt
\* no started stream is running then and no stream writes after the close.
C9_CloseOnceByCaller ==
    /\ sink.closes <= 1
    /\ pc = "cli_done" => sink.closes = 1
    /\ sink.closes > 0 => pc = "cli_done"
    /\ (sink.closes > 0 /\ outcome.exc # "KeyboardInterrupt") =>
          /\ \A i \in DOMAIN runners : runners[i].thread # "running"
          /\ sink.lateWrites = 0

C9_Witness ==
    /\ pc = "cli_done"
    /\ sink.closes = 1
    /\ AggregateRaised
    /\ sink.lines > 0

\* C10: a runner is started at most once and moves only Idle -> Running ->
\* Completed or Failed; an error is recorded only on termination and never
\* rewritten, and a terminated runner never changes again.
C10_RunnerStep ==
    /\ DOMAIN runners \subseteq DOMAIN runners'
    /\ \A i \in DOMAIN runners :
          LET r == runners[i]
              r2 == runners'[i]
          IN /\ r.thread = "none" => r2.thread \in {"none", "running"}
             /\ r.thread = "running" => r2.thread \in {"running", "finished"}
             /\ r.thread = "finished" => r2 = r
             /\ r.thread # "none" => r2.starts = r.starts
             /\ r.error # None => r2.error = r.error
             /\ r2.starts <= 1
             /\ r2.error # None => r2.thread = "finished"

\* C10: the runner lifecycle: every step of the program is a C10_RunnerStep
\* (Idle -> Running -> Completed or Failed only, one start, a write-once error,
\* nothing changing after termination).
C10_RunnerLifecycle == [][C10_RunnerStep]_vars

C10_Witness ==
    /\ \E i, j \in DOMAIN runners :
          /\ Failed(runners[i]) /\ runners[i].starts = 1
          /\ Completed(runners[j]) /\ runners[j].emitted > 0
    /\ outcome.kind = "raised"

\* C11: with a fixed seed every stream generates the sequence of that seed from
\* its start, whatever the other streams do: the j-th line of a stream is drawn
\* from the j-th place of the seed's sequence.
C11_StreamOwnsGenerationState ==
    gen.seed # None
        => \A i \in DOMAIN gen.lines :
              \A j \in DOMAIN gen.lines[i] : gen.lines[i][j] = <<gen.seed, j - 1>>

\* C12: a returned mapping has exactly one key per distinct template name of the
\* sources, and the entry of a name is the emitted count of the last stream of
\* that name.
C12_OneKeyPerNameLaterWins ==
    outcome.kind = "returned"
        => /\ DOMAIN outcome.value = {TemplateName(sources[i]) : i \in 1 .. N}
           /\ \A i \in DOMAIN runners :
                 (\A j \in DOMAIN runners : j > i => runners[j].name # runners[i].name)
                     => outcome.value[runners[i].name] = runners[i].emitted

C12_Witness ==
    /\ outcome.kind = "returned"
    /\ \E i, j \in DOMAIN runners :
          /\ i < j
          /\ runners[i].name = runners[j].name
          /\ runners[i].emitted # runners[j].emitted
    /\ Cardinality(DOMAIN outcome.value) = 1

\* C13: the total the CLI prints after a successful parallel run is the sum of
\* the emitted counts of all the streams, streams of equal template name included.
C13_TotalIsSumOfStreams ==
    cli.printed = "Emitted" => cli.total = SumEmitted(runners)

\* C14: a by-count run with a positive rate that ended without a failure has
\* performed exactly as many cycles as its count and has emitted that count, so
\* that every such run of the same count ends with the same emitted.
C14_CountRunExact ==
    \A i \in DOMAIN runners :
        (Completed(runners[i]) /\ runners[i].mode = "count")
            => /\ RatePositive(runners[i].rate)
               /\ runners[i].target >= 0
               /\ runners[i].cycles = runners[i].target
               /\ runners[i].emitted = runners[i].target

C14_Witness ==
    \E i \in DOMAIN runners :
        /\ Completed(runners[i])
        /\ runners[i].mode = "count"
        /\ runners[i].cycles >= 2
        /\ runners[i].emitted = runners[i].cycles

\* Cycles of the current paced run that have been started.
CyclesStarted == loop.i + (IF loop.phase = "cycle" THEN 1 ELSE 0)

\* C15: in a paced run started at t0, cycle i starts no earlier than t0 + i/rate,
\* a cycle whose deadline had passed when the loop reached it starts at that
\* instant, and never have more cycles been started than floor(rate * elapsed) + 1.
C15_FixedSchedulePacing ==
    loop.phase \in {"top", "sleep", "cycle", "done", "interrupted"}
        => /\ loop.phase = "cycle"
                 => /\ (loop.startAt - loop.t0) * loop.pace >= loop.i * TicksPerSecond
                    /\ (loop.topAt - loop.t0) * loop.pace >= loop.i * TicksPerSecond
                           => loop.startAt = loop.topAt
           /\ CyclesStarted >= 1
                 => CyclesStarted <= ((loop.pace * (loop.now - loop.t0)) \div TicksPerSecond) + 1

C15_Witness ==
    /\ loop.phase = "cycle"
    /\ loop.late
    /\ loop.i >= 2
    /\ loop.startAt = loop.topAt
    /\ loop.startAt > loop.t0

\* C16: a by-duration run performs no cycle whose deadline t0 + i/rate is at or
\* after t0 + duration; it returns the number of cycles it performed, which is
\* within 1 of floor(rate * duration) when no sleep and no cycle took longer
\* than scheduled; a duration of 0 emits nothing.
C16_DurationRunBounded ==
    loop.policy = "duration"
        => /\ loop.phase = "cycle"
                 => loop.i * TicksPerSecond < loop.pace * (loop.end - loop.t0)
           /\ loop.phase = "done"
                 => /\ loop.emitted = loop.i
                    /\ ~loop.late
                          => LET floor == (loop.pace * (loop.end - loop.t0)) \div TicksPerSecond
                             IN loop.emitted \in (floor - 1) .. (floor + 1)
           /\ loop.end = loop.t0 => loop.emitted = 0

C16_Witness ==
    /\ loop.policy = "duration"
    /\ loop.phase = "done"
    /\ ~loop.late
    /\ loop.emitted >= 2
    /\ loop.emitted = (loop.pace * (loop.end - loop.t0)) \div TicksPerSecond

\* C18: a burst run performs no cycle whose deadline is at or after the outer
\* bound; with an outer duration shorter than the schedule it has stopped when the
\* outer duration has elapsed (at that very instant when nothing ran late), with a
\* longer one at the end of the last segment; what it reports is what it had
\* emitted at the stop.
C18_BurstStopsAtFirstBound ==
    loop.policy = "burst"
        => LET outer == Ticks(loop.duration)
               sum == SumSpans(ParseBurstPattern(loop.burst))
               first == IF outer < sum THEN outer ELSE sum
           IN /\ loop.phase = "cycle"
                    => /\ loop.i * TicksPerSecond
                              < loop.pace * (loop.start + outer - loop.t0)
                       /\ loop.i * TicksPerSecond < loop.pace * (loop.end - loop.t0)
              /\ loop.phase = "done"
                    => /\ loop.now >= loop.start + first
                       /\ ~loop.late => loop.now = loop.start + first
                       /\ (~loop.late /\ sum <= outer) => loop.segs = <<>>
              /\ (loop.phase = "exit" /\ loop.printed = "Emitted")
                    => loop.total = loop.emitted

C18_Witness ==
    /\ loop.policy = "burst"
    /\ loop.phase = "done"
    /\ Ticks(loop.duration) < SumSpans(ParseBurstPattern(loop.burst))
    /\ Ticks(loop.duration) > Ticks("1s")
    /\ loop.now = loop.start + Ticks(loop.duration)
    /\ loop.emitted >= 4

\* C17 (as claimed): a stream whose generate or write raised has stopped for
\* good with the failure recorded, and what its caller holds as its emitted count
\* is the number of cycles it had completed, the failing cycle not among them.
C17_FailureStopsWithPartialCount ==
    \A i \in DOMAIN runners :
        runners[i].error \in {"GenerateError", "WriteError"}
            => /\ ~Running(i)
               /\ runners[i].cycles <= sink.lines
               /\ runners[i].emitted = runners[i].cycles

\* C19: when run_parallel_streams raises for an empty source list, a source that
\* does not resolve or a missing stop condition, no runner has been started, no
\* cycle has been performed and nothing has been written to the sink.
C19_ConfigErrorBeforeThreads ==
    (outcome.kind = "raised"
        /\ outcome.exc \in {"ValueError: No template sources provided",
                            "FileNotFoundError", ConfigError})
        => /\ \A i \in DOMAIN runners :
                 ~Started(runners[i]) /\ runners[i].starts = 0 /\ runners[i].cycles = 0
           /\ sink.lines = 0

C19_Witness ==
    /\ outcome.kind = "raised"
    /\ outcome.exc = "FileNotFoundError"
    /\ Len(runners) >= 1
    /\ Resolvable(sources[1])
    /\ sink.lines = 0

\* C20 (as claimed): a run that was interrupted closes the sink, ends normally
\* and has reported the number of lines it had emitted.
C20_InterruptReportsEmitted ==
    (loop.phase = "exit" /\ loop.exc = "KeyboardInterrupt")
        => /\ loop.closes = 1
           /\ loop.total = loop.emitted

\* C21: a run of `run` with several template sources and a burst spec never calls
\* the orchestrator: no runner is created or started, nothing is written to the
\* sink, and the run ends with the error message and exit status 1.
C21_BurstWithStreamsRejected ==
    (entry = "cli" /\ Len(sources) > 1 /\ burst # None)
        => /\ runners = <<>>
           /\ outcome = NoOutcome
           /\ sink.lines = 0
           /\ pc \in {"cli_begin", "cli_try", "cli_finally", "cli_done"}
           /\ pc = "cli_done"
                 => cli.exit = "Exit(1)" /\ cli.printed = "burst not supported"

C21_Witness ==
    /\ entry = "cli"
    /\ Len(sources) > 1
    /\ burst # None
    /\ pc = "cli_done"
    /\ cli.exit = "Exit(1)"
    /\ sink.closes = 1

RECURSIVE SumCounts(_)
SumCounts(q) == IF q = <<>> THEN 0 ELSE Head(q) + SumCounts(Tail(q))

\* C22: in a burst run the segments are taken in the order given, one at a time;
\* the running segment is paced at its own rate and ends after its own span from
\* its own start (or at the outer bound), it did not start before the spans of
\* all earlier segments had passed, its cycles fall inside it, and the total the
\* run returns is the sum of the cycles of all its segments.
C22_SegmentsInOrder ==
    loop.policy = "burst"
        => LET all == ParseBurstPattern(loop.burst)
               ended == Len(all) - Len(loop.segs)
           IN /\ loop.phase \in {"top", "sleep", "cycle"}
                    => /\ loop.segs # <<>>
                       /\ loop.segs = SubSeq(all, ended + 1, Len(all))
                       /\ Len(loop.counts) = ended
                       /\ loop.pace = Head(loop.segs).rate
                       /\ loop.end = Min(loop.t0 + Ticks(Head(loop.segs).span),
                                         loop.start + Ticks(loop.duration))
                       /\ loop.t0 >= loop.start + SumSpans(SubSeq(all, 1, ended))
                       /\ loop.emitted = SumCounts(loop.counts) + loop.i
              /\ loop.phase = "cycle"
                    => /\ loop.startAt >= loop.t0
                       /\ loop.i * TicksPerSecond < loop.pace * (loop.end - loop.t0)
              /\ loop.phase = "done" => loop.emitted = SumCounts(loop.counts)

C22_Witness ==
    /\ loop.policy = "burst"
    /\ loop.phase = "done"
    /\ Len(loop.counts) = 2
    /\ loop.counts[1] >= 3
    /\ loop.counts[2] >= 1
    /\ loop.emitted = loop.counts[1] + loop.counts[2]

\* The rate the chosen policy paces by is zero or negative: the rate option for a
\* by-count or by-duration run, the rate of some segment for a burst run.
BadRate ==
    IF LoopMode = "burst"
    THEN \E n \in DOMAIN ParseBurstPattern(loop.burst) :
             ParseBurstPattern(loop.burst)[n].rate <= 0
    ELSE LoopMode \in {"count", "duration", "default"} /\ loop.rate <= 0

\* C23: under each of the three policies a run whose rate is zero or negative
\* never enters a cycle: it emits nothing and ends with a configuration error.
C23_BadRateRejected ==
    BadRate
        => /\ loop.emitted = 0
           /\ loop.phase \in {"cli", "finally", "exit"}
           /\ loop.phase \in {"finally", "exit"}
                 => loop.exc \in {RateError, BurstError} /\ loop.printed = None

C23_Witness ==
    /\ LoopMode = "count"
    /\ loop.rate < 0
    /\ loop.phase = "exit"
    /\ loop.exc = RateError
    /\ loop.emitted = 0
    /\ loop.closes = 1

\* C24: a single-template run with a burst spec and no duration never enters a
\* run loop: nothing is emitted, and the run ends with exit status 1 and the sink,
\* opened before, closed exactly once.
C24_BurstNeedsDuration ==
    (loop.phase # "idle" /\ loop.burst # None /\ loop.duration = None)
        => /\ loop.emitted = 0
           /\ loop.policy = None
           /\ loop.phase \in {"cli", "finally", "exit"}
           /\ loop.closes = IF loop.phase = "exit" THEN 1 ELSE 0
           /\ loop.phase \in {"finally", "exit"}
                 => /\ loop.exc = "Exit(1)"
                    /\ loop.printed = "Error: --burst requires --duration"

C24_Witness ==
    /\ loop.phase = "exit"
    /\ loop.burst # None
    /\ loop.duration = None
    /\ loop.exc = "Exit(1)"
    /\ loop.closes = 1
    /\ loop.emitted = 0

\* C25: every runner has at most one thread, started once; while the start loop
\* runs, the runners before position k are started and the others are not, and
\* the next start can be taken whatever the earlier streams are doing; when the
\* orchestrator is at its joins, one thread has been started for each of the N
\* sources.
C25_FanOutBeforeJoin ==
    /\ \A i \in DOMAIN runners :
          /\ runners[i].starts <= 1
          /\ Started(runners[i]) <=> runners[i].starts = 1
    /\ pc = "rps_start"
          => /\ Len(runners) = N
             /\ ENABLED RpsStart
             /\ StartMode(duration, PassedCount) # "error"
                   => \A i \in 1 .. N : Started(runners[i]) <=> i < k
    /\ pc \in {"rps_join", "rps_check"}
          => /\ Len(runners) = N
             /\ \A i \in 1 .. N : runners[i].starts = 1

C25_Witness ==
    /\ pc = "rps_join"
    /\ k = 1
    /\ N >= 2
    /\ \A i \in 1 .. N : runners[i].thread = "running" /\ runners[i].starts = 1
    /\ \E i \in 1 .. N : runners[i].cycles >= 1

\* The lines of stream i among the lines q, in the order of q.
LinesOf(q, i) == SelectSeq(q, LAMBDA x : x[1] = i)

\* C26: a stream generates its next line only when its last line has been
\* written; what the sink has received holds, for every stream, exactly the lines
\* that stream has written, each once and in the order it generated them.
C26_WriteOrderPerStream ==
    /\ \A i \in 1 .. wr.n :
          /\ wr.generated[i] = wr.written[i] + (IF wr.pending[i] = <<>> THEN 0 ELSE 1)
          /\ wr.pending[i] # <<>> => wr.pending[i] = <<i, wr.generated[i]>>
          /\ LinesOf(wr.log, i) = [j \in 1 .. wr.written[i] |-> <<i, j>>]
    /\ \A a \in DOMAIN wr.log : wr.log[a][1] \in 1 .. wr.n
    /\ \A a, b \in DOMAIN wr.log : a # b => wr.log[a] # wr.log[b]

C26_Witness ==
    /\ wr.n = 2
    /\ Len(wr.log) >= 4
    /\ wr.log[1] = <<2, 1>>
    /\ wr.log[2] = <<1, 1>>
    /\ wr.log[3] = <<1, 2>>
    /\ wr.log[4] = <<2, 2>>

\* C27 (as claimed): a run asked for a count of 0 and no duration is a by-count
\* run of zero cycles: a single stream enters the by-count loop, emits nothing and
\* reports 0; in a parallel run every stream is started by count with count 0 and
\* the call returns a mapping of every stream to 0.
C27_CountZeroHonoured ==
    /\ (loop.phase # "idle" /\ loop.count = 0 /\ loop.duration = None
            /\ loop.burst = None /\ loop.rate > 0)
          => /\ loop.emitted = 0
             /\ loop.policy \in {None, "count"}
             /\ loop.phase = "exit" => loop.total = 0
    /\ (pc # "idle" /\ count = 0 /\ duration = None /\ burst = None /\ rate > 0
            /\ sources # <<>> /\ \A n \in 1 .. Len(sources) : Resolvable(sources[n]))
          => /\ sink.lines = 0
             /\ outcome.kind = "raised" => outcome.exc = "KeyboardInterrupt"
             /\ \A i \in DOMAIN runners :
                   Started(runners[i]) => runners[i].mode = "count" /\ runners[i].target = 0
             /\ outcome.kind = "returned"
                   => \A i \in 1 .. Len(sources) : outcome.value[TemplateName(sources[i])] = 0

====
